---- MODULE Spec2Model ----
(***************************************************************************)
(* shinkuro (rust-shinkuro): the prompt engine (formatters.rs, the         *)
(* MarkdownPrompt of mcp.rs) and the line-delimited JSON-RPC dispatcher    *)
(* (run_server / handle_request of mcp.rs).                                *)
(*                                                                         *)
(* Text that the formatters scan (template content, argument names,        *)
(* argument values) is a sequence of one-character strings, so that the    *)
(* regular expressions of formatters.rs are modelled by what they match.   *)
(* Other strings (prompt names, descriptions, messages) are plain strings. *)
(***************************************************************************)
EXTENDS Integers, Sequences, FiniteSets, TLC

VARIABLES
    formatter,           \* run_server's formatter: "brace" or "dollar"
    auto_discover_args,  \* run_server's auto_discover_args
    prompts,             \* run_server's prompts: Vec<PromptData>
    pi,                  \* how many of prompts the loading loop has consumed
    new_result,          \* the last value of MarkdownPrompt::new (the match scrutinee)
    markdown_prompts,    \* the catalog
    pc,                  \* "loading", "serving", "done" (run_server has returned)
    exit,                \* run_server's return value once it has returned
    stdin_read,          \* the lines reader.lines() has yielded so far
    wrote,               \* per line of stdin_read: was a reply line written for it
    stdout,              \* the reply lines written and flushed
    prev,                \* the record and outcome of the run before one name was changed
    calls                \* the calls of render or format made so far, with what they returned

vars == <<formatter, auto_discover_args, prompts, pi, new_result,
          markdown_prompts, pc, exit, stdin_read, wrote, stdout, prev, calls>>

----------------------------------------------------------------------------
(* Bounds of the model. *)

\* A template content is at most this many fragments long.
MaxParts == 2
\* A raw record declares at most this many arguments.
MaxArgs == 3
\* The catalog is loaded from at most this many raw records.
MaxPrompts == 2
\* The dispatcher reads at most this many lines.
MaxLines == 2

----------------------------------------------------------------------------
(* Option and Result. *)

None == [t |-> "none"]
Some(x) == [t |-> "some", v |-> x]
Ok(x) == [ok |-> TRUE, v |-> x]
Err(e) == [ok |-> FALSE, err |-> e]

Range(s) == {s[i] : i \in DOMAIN s}
Perms(S) == {f \in [1..Cardinality(S) -> S] : Range(f) = S}

----------------------------------------------------------------------------
(* Characters: the classes of the regular expressions, and byte order.     *)

Lower == {"a","b","c","d","e","f","g","h","i","j","k","l","m",
          "n","o","p","q","r","s","t","u","v","w","x","y","z"}
Upper == {"A","B","C","D","E","F","G","H","I","J","K","L","M",
          "N","O","P","Q","R","S","T","U","V","W","X","Y","Z"}
Digit == {"0","1","2","3","4","5","6","7","8","9"}

\* [a-zA-Z_]
IsIdentStart(c) == c \in Lower \cup Upper \cup {"_"}
\* [a-zA-Z0-9_]
IsIdentChar(c) == IsIdentStart(c) \/ c \in Digit

\* The characters of the model in ascending byte order ('$' 36, '0'..'9',
\* 'A'..'Z', '_' 95, 'a'..'z', '{' 123, '}' 125).
ByteOrder == <<"$",
               "0","1","2","3","4","5","6","7","8","9",
               "A","B","C","D","E","F","G","H","I","J","K","L","M",
               "N","O","P","Q","R","S","T","U","V","W","X","Y","Z",
               "_",
               "a","b","c","d","e","f","g","h","i","j","k","l","m",
               "n","o","p","q","r","s","t","u","v","w","x","y","z",
               "{", "}">>
Code(c) == CHOOSE i \in DOMAIN ByteOrder : ByteOrder[i] = c

\* String::cmp(a, b) = Less: lexicographic by bytes.
RECURSIVE StrLess(_, _)
StrLess(a, b) ==
    IF b = <<>> THEN FALSE
    ELSE IF a = <<>> THEN TRUE
    ELSE IF Code(Head(a)) # Code(Head(b)) THEN Code(Head(a)) < Code(Head(b))
    ELSE StrLess(Tail(a), Tail(b))

----------------------------------------------------------------------------
(* formatters.rs *)

\* ^[a-zA-Z_][a-zA-Z0-9_]*$ (no multi-line mode: $ is the end of the text)
validate_variable_name(name) ==
    /\ Len(name) > 0
    /\ IsIdentStart(name[1])
    /\ \A i \in 2..Len(name) : IsIdentChar(name[i])

\* [a-zA-Z0-9_]* from position j, greedy: the first position after the run.
RECURSIVE RunEnd(_, _)
RunEnd(s, j) ==
    IF j <= Len(s) /\ IsIdentChar(s[j]) THEN RunEnd(s, j + 1) ELSE j

\* \{([a-zA-Z_][a-zA-Z0-9_]*)\} anchored at position i: the position of the
\* closing brace, or 0 when there is no match at i.
BraceMatchEnd(s, i) ==
    IF s[i] = "{" /\ i + 1 <= Len(s) /\ IsIdentStart(s[i + 1])
    THEN LET e == RunEnd(s, i + 2)
         IN IF e <= Len(s) /\ s[e] = "}" THEN e ELSE 0
    ELSE 0

\* \$([a-zA-Z_][a-zA-Z0-9_]*) anchored at position i: the position of the
\* last character of the name, or 0 when there is no match at i.
DollarMatchEnd(s, i) ==
    IF s[i] = "$" /\ i + 1 <= Len(s) /\ IsIdentStart(s[i + 1])
    THEN RunEnd(s, i + 2) - 1
    ELSE 0

\* Regex::captures_iter: the non-overlapping matches from position i on,
\* leftmost first; each is [from, to, name] with name the capture group 1.
RECURSIVE BraceCaptures(_, _)
BraceCaptures(s, i) ==
    IF i > Len(s) THEN <<>>
    ELSE LET e == BraceMatchEnd(s, i)
         IN IF e = 0 THEN BraceCaptures(s, i + 1)
            ELSE <<[from |-> i, to |-> e, name |-> SubSeq(s, i + 1, e - 1)]>>
                 \o BraceCaptures(s, e + 1)

RECURSIVE DollarCaptures(_, _)
DollarCaptures(s, i) ==
    IF i > Len(s) THEN <<>>
    ELSE LET e == DollarMatchEnd(s, i)
         IN IF e = 0 THEN DollarCaptures(s, i + 1)
            ELSE <<[from |-> i, to |-> e, name |-> SubSeq(s, i + 1, e)]>>
                 \o DollarCaptures(s, e + 1)

\* The loop shared by both extract_arguments: an invalid capture is an
\* error, otherwise the names are collected in a HashSet.
CollectArguments(caps) ==
    IF \E k \in DOMAIN caps : ~validate_variable_name(caps[k].name)
    THEN LET k == CHOOSE k \in DOMAIN caps :
                      /\ ~validate_variable_name(caps[k].name)
                      /\ \A j \in 1..(k - 1) : validate_variable_name(caps[j].name)
         IN Err([kind |-> "InvalidVariableName", name |-> caps[k].name])
    ELSE Ok({caps[k].name : k \in DOMAIN caps})

BraceFormatter_extract_arguments(content) ==
    CollectArguments(BraceCaptures(content, 1))

DollarFormatter_extract_arguments(content) ==
    CollectArguments(DollarCaptures(content, 1))

\* Regex::replace_all with the closure of format: a capture whose name is a
\* key of variables is replaced by the value, any other capture is kept as
\* matched; the text between captures is copied. k is the capture to treat
\* next and i the first position not yet copied.
RECURSIVE ReplaceAll(_, _, _, _, _)
ReplaceAll(s, caps, variables, k, i) ==
    IF k > Len(caps) THEN SubSeq(s, i, Len(s))
    ELSE LET c == caps[k]
         IN SubSeq(s, i, c.from - 1)
            \o (IF c.name \in DOMAIN variables
                THEN variables[c.name]
                ELSE SubSeq(s, c.from, c.to))
            \o ReplaceAll(s, caps, variables, k + 1, c.to + 1)

\* format with a slip: the result of the replacement is scanned once more.
BraceFormatter_format_again(content, variables) ==
    LET once == ReplaceAll(content, BraceCaptures(content, 1), variables, 1, 1)
    IN ReplaceAll(once, BraceCaptures(once, 1), variables, 1, 1)

\* format with a slip: Regex::replace, which replaces the first match only.
BraceFormatter_format_first(content, variables) ==
    LET caps == BraceCaptures(content, 1)
    IN ReplaceAll(content, IF caps = <<>> THEN caps ELSE <<caps[1]>>,
                  variables, 1, 1)

BraceFormatter_format(content, variables) ==
    ReplaceAll(content, BraceCaptures(content, 1), variables, 1, 1)

DollarFormatter_format(content, variables) ==
    ReplaceAll(content, DollarCaptures(content, 1), variables, 1, 1)

\* The trait object: dispatch on the formatter chosen by get_formatter.
extract_arguments(fmt, content) ==
    IF fmt = "brace" THEN BraceFormatter_extract_arguments(content)
    ELSE DollarFormatter_extract_arguments(content)

format(fmt, content, variables) ==
    IF fmt = "brace" THEN BraceFormatter_format(content, variables)
    ELSE DollarFormatter_format(content, variables)

----------------------------------------------------------------------------
(* model.rs *)

Argument(name, description, default) ==
    [name |-> name, description |-> description, default |-> default]

PromptData(name, title, description, arguments, content) ==
    [name |-> name, title |-> title, description |-> description,
     arguments |-> arguments, content |-> content]

----------------------------------------------------------------------------
(* mcp.rs: MarkdownPrompt *)

\* Vec::sort_by(|a, b| a.name.cmp(&b.name)): a stable sort, ascending by
\* name, here by insertion from the left.
RECURSIVE InsertByName(_, _)
InsertByName(sorted, a) ==
    IF sorted = <<>> THEN <<a>>
    ELSE IF StrLess(a.name, Head(sorted).name)
         THEN <<a>> \o sorted
         ELSE <<Head(sorted)>> \o InsertByName(Tail(sorted), a)

RECURSIVE SortFrom(_, _)
SortFrom(sorted, rest) ==
    IF rest = <<>> THEN sorted
    ELSE SortFrom(InsertByName(sorted, Head(rest)), Tail(rest))

\* The sort left out: the arguments stay in the order of the iteration.
unsorted(arguments) == arguments

sort_by_name(arguments) == SortFrom(<<>>, arguments)

\* The arguments built from discovered_args.iter(): a HashSet is iterated in
\* an arbitrary order, so every order is a possible one.
DiscoveredArguments(discovered_args) ==
    {[k \in 1..Cardinality(discovered_args) |-> Argument(order[k], "", None)] :
        order \in Perms(discovered_args)}

\* The auto-discovery guard: the raw record must declare no argument.
arguments_is_empty(arguments) == arguments = <<>>

\* The first loop of the else branch: every declared name is validated.
all_names_valid(arguments) ==
    \A k \in DOMAIN arguments : validate_variable_name(arguments[k].name)

\* The comparison with a slip: only one direction is checked, or only the
\* sizes of the two sets.
provided_is_subset(discovered_args, provided_args) ==
    provided_args \subseteq discovered_args

discovered_is_subset(discovered_args, provided_args) ==
    discovered_args \subseteq provided_args

same_len(discovered_args, provided_args) ==
    Cardinality(discovered_args) = Cardinality(provided_args)

\* discovered_args != provided_args fails the construction.
args_match(discovered_args, provided_args) ==
    discovered_args = provided_args

\* MarkdownPrompt::new: the set of values it can return (one, but for the
\* iteration order of the HashSet, which the sort makes immaterial).
MarkdownPrompt_new(prompt_data, fmt, auto) ==
    LET discovered == extract_arguments(fmt, prompt_data.content)
        built(arguments) ==
            Ok([name |-> prompt_data.name, title |-> prompt_data.title,
                description |-> prompt_data.description,
                arguments |-> arguments, content |-> prompt_data.content])
    IN IF auto
       THEN IF ~arguments_is_empty(prompt_data.arguments)
            THEN {Err([kind |-> "arguments must be empty"])}
            ELSE IF ~discovered.ok THEN {Err(discovered.err)}
            ELSE {built(sort_by_name(args)) :
                     args \in DiscoveredArguments(discovered.v)}
       ELSE IF ~all_names_valid(prompt_data.arguments)
            THEN {Err([kind |-> "invalid characters"])}
            ELSE IF ~discovered.ok THEN {Err(discovered.err)}
            ELSE LET provided_args ==
                         {prompt_data.arguments[k].name :
                             k \in DOMAIN prompt_data.arguments}
                 IN IF ~args_match(discovered.v, provided_args)
                    THEN {Err([kind |-> "don't match"])}
                    ELSE {built(prompt_data.arguments)}

\* The merge with a slip: a default once inserted is not overwritten, the
\* first default of a name stays.
FirstDefaultOf(arguments, name) ==
    LET k == CHOOSE k \in DOMAIN arguments :
                 /\ arguments[k].name = name
                 /\ arguments[k].default.t = "some"
                 /\ \A j \in DOMAIN arguments :
                        (j < k /\ arguments[j].name = name)
                            => arguments[j].default.t = "none"
    IN arguments[k].default.v

\* HashMap::insert of the defaults in declaration order: for a name declared
\* more than once the last default stays.
DefaultOf(arguments, name) ==
    LET k == CHOOSE k \in DOMAIN arguments :
                 /\ arguments[k].name = name
                 /\ arguments[k].default.t = "some"
                 /\ \A j \in DOMAIN arguments :
                        (j > k /\ arguments[j].name = name)
                            => arguments[j].default.t = "none"
    IN arguments[k].default.v

\* render with a slip: the failure lists every required name, supplied or not.
render_lists_required(self, arguments, fmt) ==
    LET required == {self.arguments[k].name :
                        k \in {j \in DOMAIN self.arguments :
                                  self.arguments[j].default.t = "none"}}
        provided == IF arguments.t = "some" THEN DOMAIN arguments.v ELSE {}
        defaulted == {self.arguments[k].name :
                        k \in {j \in DOMAIN self.arguments :
                                  self.arguments[j].default.t = "some"}}
        render_args == [n \in defaulted \cup provided |->
                           IF n \in provided THEN arguments.v[n]
                           ELSE DefaultOf(self.arguments, n)]
    IN IF required \ provided # {}
       THEN {Err([kind |-> "Missing required arguments", missing |-> m]) :
                m \in Perms(required)}
       ELSE {Ok(format(fmt, self.content, render_args))}

\* MarkdownPrompt::render: the set of values it can return. The missing
\* names come out of HashSet::difference in an arbitrary order.
render(self, arguments, fmt) ==
    LET required == {self.arguments[k].name :
                        k \in {j \in DOMAIN self.arguments :
                                  self.arguments[j].default.t = "none"}}
        provided == IF arguments.t = "some" THEN DOMAIN arguments.v ELSE {}
        missing == required \ provided
        defaulted == {self.arguments[k].name :
                        k \in {j \in DOMAIN self.arguments :
                                  self.arguments[j].default.t = "some"}}
        render_args == [n \in defaulted \cup provided |->
                           IF n \in provided THEN arguments.v[n]
                           ELSE DefaultOf(self.arguments, n)]
    IN IF missing # {}
       THEN {Err([kind |-> "Missing required arguments", missing |-> m]) :
                m \in Perms(missing)}
       ELSE {Ok(format(fmt, self.content, render_args))}

\* to_prompt_info with a slip: the list of arguments is always there, empty
\* for a prompt without arguments.
to_prompt_info_with_empty_list(self) ==
    [name |-> self.name,
     description |-> self.description,
     arguments |->
        Some([k \in DOMAIN self.arguments |->
                [name |-> self.arguments[k].name,
                 description |-> self.arguments[k].description,
                 required |-> self.arguments[k].default.t = "none"]])]

\* MarkdownPrompt::to_prompt_info
to_prompt_info(self) ==
    [name |-> self.name,
     description |-> self.description,
     arguments |->
        IF self.arguments = <<>> THEN None
        ELSE Some([k \in DOMAIN self.arguments |->
                     [name |-> self.arguments[k].name,
                      description |-> self.arguments[k].description,
                      required |-> self.arguments[k].default.t = "none"]])]

----------------------------------------------------------------------------
(* The inputs of the construction: raw records as file.rs hands them over. *)

\* The pieces a template content is put together from: references of both
\* syntaxes and the characters that make near-references ("{{a}", "{a}}",
\* "$a1", "{1", "{}").
Fragments == { <<"{", "a", "}">>, <<"{", "b", "}">>, <<"$", "a">>, <<"$", "b">>,
               <<"{">>, <<"}">>, <<"1">> }

RECURSIVE Contents(_)
Contents(n) ==
    IF n = 0 THEN {<<>>}
    ELSE LET C == Contents(n - 1) IN C \cup {c \o f : c \in C, f \in Fragments}

\* The declared arguments a raw record is put together from: a required one,
\* an optional one, and one whose name is no identifier.
ArgPool == { Argument(<<"a">>, "first", None),
             Argument(<<"b">>, "second", Some(<<"v">>)),
             Argument(<<"1", "a">>, "third", None) }

\* The names a declared name can be changed to.
NamePool == { <<"a">>, <<"b">>, <<"1", "a">>, <<"c">> }

RECURSIVE ArgLists(_)
ArgLists(n) ==
    IF n = 0 THEN {<<>>}
    ELSE LET L == ArgLists(n - 1) IN L \cup {Append(l, a) : l \in L, a \in ArgPool}

Formatters == {"brace", "dollar"}

----------------------------------------------------------------------------
(* mcp.rs: run_server, the loading loop *)

\* One iteration of "for prompt_data in prompts": the prompt is pushed on
\* the catalog, or a warning is printed and the record is skipped.
NewPrompt ==
    /\ pc = "loading"
    /\ pi < Len(prompts)
    /\ \E r \in MarkdownPrompt_new(prompts[pi + 1], formatter, auto_discover_args) :
          /\ new_result' = r
          /\ markdown_prompts' =
                 IF r.ok THEN Append(markdown_prompts, r.v) ELSE markdown_prompts
    /\ pi' = pi + 1
    /\ UNCHANGED <<formatter, auto_discover_args, prompts, pc, exit,
                   stdin_read, wrote, stdout, prev, calls>>

\* The same record with the name of its k-th declared argument changed.
Renamed(prompt_data, k, name) ==
    [prompt_data EXCEPT !.arguments[k].name = name]

\* A second run on a record that a first run (auto-discovery off) accepted,
\* with one declared name changed to a different one.
RenameArgument ==
    /\ pc = "loading"
    /\ pi = Len(prompts)
    /\ Len(prompts) = 1
    /\ prev = None
    /\ ~auto_discover_args
    /\ new_result.ok
    /\ \E k \in DOMAIN prompts[1].arguments :
          \E name \in NamePool \ {prompts[1].arguments[k].name} :
             prompts' = <<Renamed(prompts[1], k, name)>>
    /\ prev' = Some(prompts[1])
    /\ pi' = 0
    /\ new_result' = None
    /\ markdown_prompts' = <<>>
    /\ UNCHANGED <<formatter, auto_discover_args, pc, exit,
                   stdin_read, wrote, stdout, calls>>

\* The construction alone, on every raw record within the bounds.
InitNew ==
    /\ formatter \in Formatters
    /\ auto_discover_args \in BOOLEAN
    /\ \E arguments \in ArgLists(MaxArgs), content \in Contents(MaxParts) :
          prompts = <<PromptData("p", "P", "about p", arguments, content)>>
    /\ pi = 0
    /\ new_result = None
    /\ markdown_prompts = <<>>
    /\ pc = "loading"
    /\ exit = None
    /\ stdin_read = <<>>
    /\ wrote = <<>>
    /\ stdout = <<>>
    /\ prev = None
    /\ calls = <<>>

NextNew == NewPrompt \/ RenameArgument

SpecNew == InitNew /\ [][NextNew]_vars

----------------------------------------------------------------------------
(* serde_json::Value, as far as handle_request looks into it. *)

JNull == [t |-> "null"]
JNum(n) == [t |-> "num", n |-> n]
JStr(s) == [t |-> "str", s |-> s]
JObj(m) == [t |-> "obj", m |-> m]
JArr(a) == [t |-> "arr", a |-> a]

\* Value::get(key) with a string key: None unless an object with that key.
get(value, key) ==
    IF value.t = "obj" /\ key \in DOMAIN value.m THEN Some(value.m[key]) ELSE None

\* Value::as_str
as_str(value) == IF value.t = "str" THEN Some(value.s) ELSE None

\* Option::and_then with Value::get(key), with Value::as_str
and_then_get(option, key) ==
    IF option.t = "some" THEN get(option.v, key) ELSE None

and_then_as_str(option) ==
    IF option.t = "some" THEN as_str(option.v) ELSE None

\* The conversion with a slip: the entries whose value is a string are kept
\* and the others are dropped.
from_value_lenient(a) ==
    IF a.t = "obj"
    THEN Some([k \in {n \in DOMAIN a.m : a.m[n].t = "str"} |-> a.m[k].s])
    ELSE None

\* serde_json::from_value::<HashMap<String, String>>(a).ok(): an object all of
\* whose values are strings, or nothing.
from_value_ok(a) ==
    IF a.t = "obj" /\ \A k \in DOMAIN a.m : a.m[k].t = "str"
    THEN Some([k \in DOMAIN a.m |-> a.m[k].s])
    ELSE None

\* Option::and_then with from_value(..).ok()
and_then_from_value(option) ==
    IF option.t = "some" THEN from_value_ok(option.v) ELSE None

\* json!({"jsonrpc": "2.0", "id": id, ...}): an absent id is written as null.
IdOf(id) == IF id.t = "some" THEN id.v ELSE JNull

ResultReply(id, result) ==
    [jsonrpc |-> "2.0", id |-> IdOf(id), result |-> result]

ErrorReply(id, code, message) ==
    [jsonrpc |-> "2.0", id |-> IdOf(id),
     error |-> [code |-> code, message |-> message]]

----------------------------------------------------------------------------
(* mcp.rs: handle_request *)

InitializeResult ==
    [protocolVersion |-> "2024-11-05",
     capabilities |-> [prompts |-> [listChanged |-> FALSE]],
     serverInfo |-> [name |-> "shinkuro", version |-> "CARGO_PKG_VERSION"]]

\* The lookup with a slip: the last prompt of the name, as if a later prompt
\* replaced an earlier one of the same name.
find_last(catalog, name) ==
    IF \E k \in DOMAIN catalog : catalog[k].name = name
    THEN Some(catalog[CHOOSE k \in DOMAIN catalog :
                         /\ catalog[k].name = name
                         /\ \A j \in (k + 1)..Len(catalog) : catalog[j].name # name])
    ELSE None

\* prompts.iter().find(|p| p.name == name)
find(catalog, name) ==
    IF \E k \in DOMAIN catalog : catalog[k].name = name
    THEN Some(catalog[CHOOSE k \in DOMAIN catalog :
                         /\ catalog[k].name = name
                         /\ \A j \in 1..(k - 1) : catalog[j].name # name])
    ELSE None

\* The reply to the outcome of render.
RenderReply(id, prompt, rendered) ==
    IF rendered.ok
    THEN ResultReply(id,
             [description |-> prompt.description,
              messages |-> <<[role |-> "user",
                              content |-> [type |-> "text", text |-> rendered.v]]>>])
    ELSE ErrorReply(id, -32602,
             [text |-> "Failed to render prompt", cause |-> rendered.err])

\* handle_request: the set of values it can return, each Ok(None), Ok(Some of
\* a reply) or Err (which run_server propagates with "?").
handle_request(request, catalog, fmt) ==
    LET method == and_then_as_str(get(request, "method"))
        id == get(request, "id")
    IN IF method = Some("initialize")
       THEN {Ok(Some(ResultReply(id, InitializeResult)))}
       ELSE IF method = Some("notifications/initialized")
       THEN {Ok(None)}
       ELSE IF method = Some("prompts/list")
       THEN {Ok(Some(ResultReply(id,
                [prompts |-> [k \in DOMAIN catalog |-> to_prompt_info(catalog[k])]])))}
       ELSE IF method = Some("prompts/get")
       THEN LET params == get(request, "params")
                name == and_then_as_str(and_then_get(params, "name"))
                arguments == and_then_from_value(and_then_get(params, "arguments"))
            IN IF name = None
               THEN {Err([kind |-> "Missing prompt name"])}
               ELSE LET prompt == find(catalog, name.v)
                    IN IF prompt = None
                       THEN {Err([kind |-> "Prompt not found", name |-> name.v])}
                       ELSE {Ok(Some(RenderReply(id, prompt.v, rendered))) :
                                rendered \in render(prompt.v, arguments, fmt)}
       ELSE {Ok(Some(ErrorReply(id, -32601,
                [text |-> "Method not found", method |-> method])))}

----------------------------------------------------------------------------
(* The inputs of the server: raw records and input lines. *)

\* Raw records: p declares what its content references under either
\* formatter; a second record of the same name has no argument and a static
\* content; q declares nothing and references two names.
RawPool ==
    { PromptData("p", "P", "first p",
          <<Argument(<<"a">>, "first", None),
            Argument(<<"b">>, "second", Some(<<"v">>))>>,
          <<"{", "a", "}", "{", "b", "}", "$", "a", "$", "b">>),
      PromptData("p", "P2", "second p", <<>>, <<"h", "i">>),
      PromptData("q", "Q", "about q", <<>>,
          <<"{", "b", "}", "{", "a", "}", "$", "b", "$", "a">>) }

RECURSIVE RawLists(_)
RawLists(n) ==
    IF n = 0 THEN {<<>>}
    ELSE LET L == RawLists(n - 1) IN L \cup {Append(l, r) : l \in L, r \in RawPool}

\* An input line: blank (line.trim().is_empty()), text that is no JSON
\* (serde_json::from_str fails), or a JSON value.
BlankLine == [kind |-> "blank", json |-> JNull]
GarbageLine == [kind |-> "garbage", json |-> JNull]
JsonLine(value) == [kind |-> "json", json |-> value]

Get(id, params) ==
    JsonLine(JObj(("method" :> JStr("prompts/get")) @@ ("id" :> JNum(id))
                    @@ ("params" :> JObj(params))))

Lines ==
    { BlankLine,
      GarbageLine,
      JsonLine(JNum(7)),
      JsonLine(JObj(<<>>)),
      JsonLine(JObj(("method" :> JStr("initialize")) @@ ("id" :> JNum(1)))),
      JsonLine(JObj("method" :> JStr("notifications/initialized"))),
      JsonLine(JObj(("method" :> JStr("prompts/list")) @@ ("id" :> JNum(2)))),
      JsonLine(JObj("method" :> JStr("prompts/list"))),
      JsonLine(JObj(("method" :> JStr("tools/list")) @@ ("id" :> JNum(3)))),
      JsonLine(JObj(("method" :> JStr("tools/list")) @@ ("id" :> JNull))),
      Get(4, ("name" :> JStr("p"))
               @@ ("arguments" :> JObj(<<"a">> :> JStr(<<"x">>)))),
      Get(5, ("name" :> JStr("p"))),
      Get(6, ("name" :> JStr("missing"))),
      JsonLine(JObj(("method" :> JStr("prompts/get")) @@ ("id" :> JNum(7)))),
      Get(8, ("name" :> JNum(5))),
      Get(9, ("name" :> JStr("p"))
               @@ ("arguments" :> JObj(<<"a">> :> JNum(1)))),
      Get(10, ("name" :> JStr("q"))
               @@ ("arguments" :> JObj((<<"a">> :> JStr(<<"x">>))
                                        @@ (<<"b">> :> JStr(<<"{", "a", "}">>))))) }

----------------------------------------------------------------------------
(* mcp.rs: run_server, the serving loop *)

\* The loading loop is over: stdin is locked and the serving loop starts.
LockStdin ==
    /\ pc = "loading"
    /\ pi = Len(prompts)
    /\ pc' = "serving"
    /\ UNCHANGED <<formatter, auto_discover_args, prompts, pi, new_result,
                   markdown_prompts, exit, stdin_read, wrote, stdout, prev, calls>>

CanRead == pc = "serving" /\ Len(stdin_read) < MaxLines

IsRequest(line) == line.kind = "json"

\* A blank line, or a line that is no JSON: "continue".
SkipLine ==
    /\ CanRead
    /\ \E line \in Lines :
          /\ ~IsRequest(line)
          /\ stdin_read' = Append(stdin_read, line)
    /\ wrote' = Append(wrote, FALSE)
    /\ UNCHANGED <<formatter, auto_discover_args, prompts, pi, new_result,
                   markdown_prompts, pc, exit, stdout, prev, calls>>

\* handle_request returns Ok(None): nothing is written.
HandleSilently ==
    /\ CanRead
    /\ \E line \in Lines :
          /\ IsRequest(line)
          /\ \E response \in handle_request(line.json, markdown_prompts, formatter) :
                response.ok /\ response.v = None
          /\ stdin_read' = Append(stdin_read, line)
    /\ wrote' = Append(wrote, FALSE)
    /\ UNCHANGED <<formatter, auto_discover_args, prompts, pi, new_result,
                   markdown_prompts, pc, exit, stdout, prev, calls>>

\* handle_request returns Ok(Some(response)): the response is written as one
\* line and flushed.
HandleAndReply ==
    /\ CanRead
    /\ \E line \in Lines :
          /\ IsRequest(line)
          /\ \E response \in handle_request(line.json, markdown_prompts, formatter) :
                /\ response.ok /\ response.v # None
                /\ stdout' = Append(stdout, response.v.v)
          /\ stdin_read' = Append(stdin_read, line)
    /\ wrote' = Append(wrote, TRUE)
    /\ UNCHANGED <<formatter, auto_discover_args, prompts, pi, new_result,
                   markdown_prompts, pc, exit, prev, calls>>

\* handle_request returns Err: "?" makes run_server return it, and main
\* prints it and exits with status 1.
HandleFails ==
    /\ CanRead
    /\ \E line \in Lines :
          /\ IsRequest(line)
          /\ \E response \in handle_request(line.json, markdown_prompts, formatter) :
                /\ ~response.ok
                /\ exit' = Err([kind |-> "request", cause |-> response.err])
          /\ stdin_read' = Append(stdin_read, line)
    /\ wrote' = Append(wrote, FALSE)
    /\ pc' = "done"
    /\ UNCHANGED <<formatter, auto_discover_args, prompts, pi, new_result,
                   markdown_prompts, stdout, prev, calls>>

\* handle_request returns Ok(Some(response)) and writeln! or flush fails:
\* "?" makes run_server return the I/O error.
WriteFails ==
    /\ CanRead
    /\ \E line \in Lines :
          /\ IsRequest(line)
          /\ \E response \in handle_request(line.json, markdown_prompts, formatter) :
                response.ok /\ response.v # None
          /\ stdin_read' = Append(stdin_read, line)
    /\ wrote' = Append(wrote, FALSE)
    /\ pc' = "done"
    /\ exit' = Err([kind |-> "io", what |-> "write"])
    /\ UNCHANGED <<formatter, auto_discover_args, prompts, pi, new_result,
                   markdown_prompts, stdout, prev, calls>>

\* reader.lines() yields an error: "line?" makes run_server return it.
ReadFails ==
    /\ pc = "serving"
    /\ pc' = "done"
    /\ exit' = Err([kind |-> "io", what |-> "read"])
    /\ UNCHANGED <<formatter, auto_discover_args, prompts, pi, new_result,
                   markdown_prompts, stdin_read, wrote, stdout, prev, calls>>

\* reader.lines() is exhausted: run_server returns Ok(()).
EndOfInput ==
    /\ pc = "serving"
    /\ pc' = "done"
    /\ exit' = Ok(<<>>)
    /\ UNCHANGED <<formatter, auto_discover_args, prompts, pi, new_result,
                   markdown_prompts, stdin_read, wrote, stdout, prev, calls>>

Init ==
    /\ formatter \in Formatters
    /\ auto_discover_args \in BOOLEAN
    /\ prompts \in RawLists(MaxPrompts)
    /\ pi = 0
    /\ new_result = None
    /\ markdown_prompts = <<>>
    /\ pc = "loading"
    /\ exit = None
    /\ stdin_read = <<>>
    /\ wrote = <<>>
    /\ stdout = <<>>
    /\ prev = None
    /\ calls = <<>>

Next ==
    \/ NewPrompt
    \/ LockStdin
    \/ SkipLine
    \/ HandleSilently
    \/ HandleAndReply
    \/ HandleFails
    \/ WriteFails
    \/ ReadFails
    \/ EndOfInput

Spec == Init /\ [][Next]_vars

----------------------------------------------------------------------------
(* Properties of the construction (SpecNew). *)

\* MarkdownPrompt::new has returned for the record of this run.
Constructed == pi = 1 /\ Len(prompts) = 1 /\ "ok" \in DOMAIN new_result

DeclaredNames(prompt_data) ==
    {prompt_data.arguments[k].name : k \in DOMAIN prompt_data.arguments}

\* The variable names the active formatter extracts from a content.
ExtractedNames(content) == extract_arguments(formatter, content).v

IdentifiersThatMatch(prompt_data) ==
    /\ \A k \in DOMAIN prompt_data.arguments :
          validate_variable_name(prompt_data.arguments[k].name)
    /\ DeclaredNames(prompt_data) = ExtractedNames(prompt_data.content)

DistinctNames(arguments) ==
    \A j, k \in DOMAIN arguments : j # k => arguments[j].name # arguments[k].name

\* C8: with auto-discovery off, construction succeeds if and only if every
\* declared name is an identifier and the set of declared names equals the
\* set of variables extracted from the content (so it fails for a declared
\* name that is not referenced and for a referenced name that is not
\* declared), and on success the prompt keeps the declared arguments in
\* declaration order.
C8_NewChecksDeclaredArguments ==
    (Constructed /\ ~auto_discover_args) =>
        /\ new_result.ok <=> IdentifiersThatMatch(prompts[1])
        /\ new_result.ok => new_result.v.arguments = prompts[1].arguments

\* C8's case: a record declaring b before a is accepted, another declares a
\* name the content lacks, a third lacks a name the content references.
C8_Witness ==
    /\ Constructed /\ ~auto_discover_args /\ new_result.ok
    /\ Len(prompts[1].arguments) >= 2
    /\ prompts[1].arguments[1].name = <<"b">>
    /\ prompts[1].arguments[2].name = <<"a">>

\* C9 as stated: with auto-discovery off, a declared list whose names are
\* identifiers and exactly match the variables of the content is accepted,
\* and changing the name of any single entry to a different name makes the
\* construction fail.
C9_AnyRenameFails ==
    /\ (Constructed /\ ~auto_discover_args /\ IdentifiersThatMatch(prompts[1]))
          => new_result.ok
    /\ (Constructed /\ prev # None /\ IdentifiersThatMatch(prev.v))
          => ~new_result.ok

\* C9 as amended: the same, for a declared list whose names are pairwise
\* distinct (changing one of two entries of the same name to another
\* declared name leaves the set of names as it was).
C9_RenameOfDistinctFails ==
    /\ (Constructed /\ ~auto_discover_args /\ IdentifiersThatMatch(prompts[1]))
          => new_result.ok
    /\ (Constructed /\ prev # None /\ IdentifiersThatMatch(prev.v)
            /\ DistinctNames(prev.v.arguments))
          => ~new_result.ok

\* C9's case: an accepted list of two distinct names, one of them changed,
\* has been constructed again.
C9_Witness ==
    /\ Constructed /\ prev # None
    /\ IdentifiersThatMatch(prev.v)
    /\ DistinctNames(prev.v.arguments)
    /\ Len(prev.v.arguments) >= 2
    /\ ~new_result.ok

\* C10: with auto-discovery on, construction fails for every record that
\* declares an argument; for a record that declares none it succeeds, with
\* exactly one argument per distinct extracted name, each with an empty
\* description and no default, in ascending order of name.
C10_AutoDiscovery ==
    (Constructed /\ auto_discover_args) =>
        /\ prompts[1].arguments # <<>> => ~new_result.ok
        /\ prompts[1].arguments = <<>> =>
              /\ new_result.ok
              /\ LET A == new_result.v.arguments
                 IN /\ {A[k].name : k \in DOMAIN A}
                          = ExtractedNames(prompts[1].content)
                    /\ Len(A) = Cardinality(ExtractedNames(prompts[1].content))
                    /\ \A k \in DOMAIN A :
                          A[k].description = "" /\ A[k].default = None
                    /\ \A k \in 1..(Len(A) - 1) :
                          StrLess(A[k].name, A[k + 1].name)

\* C10's case: two names were discovered, the later one of the content first.
C10_Witness ==
    /\ Constructed /\ auto_discover_args /\ new_result.ok
    /\ prompts[1].content = <<"{", "b", "}", "{", "a", "}">>
    /\ formatter = "brace"
    /\ Len(new_result.v.arguments) = 2

----------------------------------------------------------------------------
(* Properties of the dispatcher (Spec). *)

MethodOf(line) == and_then_as_str(get(line.json, "method"))

\* The number of reply lines written for the first i lines read: the place
\* on stdout of the reply to line i, when one was written.
RECURSIVE ReplyIndex(_)
ReplyIndex(i) ==
    IF i = 0 THEN 0 ELSE ReplyIndex(i - 1) + (IF wrote[i] THEN 1 ELSE 0)

ReplyTo(i) == stdout[ReplyIndex(i)]

IsErrorReply(reply) == "error" \in DOMAIN reply

\* run_server returned an error of handle_request at line i.
RequestFailedAt(i) ==
    /\ pc = "done"
    /\ ~exit.ok
    /\ exit.err.kind = "request"
    /\ i = Len(stdin_read)

\* run_server returned because the reply to line i could not be written.
WriteFailedAt(i) ==
    /\ pc = "done"
    /\ ~exit.ok
    /\ exit.err.kind = "io"
    /\ exit.err.what = "write"
    /\ i = Len(stdin_read)

\* The name a prompts/get line asks for, when it is a string.
NameAskedBy(line) ==
    and_then_as_str(and_then_get(get(line.json, "params"), "name"))

ArgumentsGivenBy(line) ==
    and_then_from_value(and_then_get(get(line.json, "params"), "arguments"))

IsGet(line) == IsRequest(line) /\ MethodOf(line) = Some("prompts/get")

IsGetOfUnknownName(line) ==
    /\ IsGet(line)
    /\ NameAskedBy(line) # None
    /\ find(markdown_prompts, NameAskedBy(line).v) = None

\* C1: a prompts/get whose name is a string that matches no prompt of the
\* catalog is answered with a JSON-RPC error reply (unless the write itself
\* fails), and the dispatcher does not terminate on it.
C1_UnknownNameIsAnErrorReply ==
    \A i \in DOMAIN stdin_read :
        (IsGetOfUnknownName(stdin_read[i]) /\ ~WriteFailedAt(i)) =>
            /\ ~RequestFailedAt(i)
            /\ wrote[i]
            /\ IsErrorReply(ReplyTo(i))
            /\ ReplyTo(i).id = IdOf(get(stdin_read[i].json, "id"))

KnownMethods ==
    {"initialize", "notifications/initialized", "prompts/list", "prompts/get"}

\* A prompts/get with no params, no name or a name that is no string.
IsGetWithoutName(line) == IsGet(line) /\ NameAskedBy(line) = None

\* A line that is no well-formed request of this server: no JSON, no
\* method or an unsupported one, or a prompts/get that names no prompt.
IsMalformed(line) ==
    \/ ~IsRequest(line)
    \/ MethodOf(line) = None
    \/ MethodOf(line).v \notin KnownMethods
    \/ IsGetWithoutName(line)

\* C2: malformed client input never stops the server: the loop does not end
\* on such a line (it ends only when the input is exhausted or a stream read
\* or write fails), and the line yields no output or one error reply.
C2_MalformedInputNeverStops ==
    \A i \in DOMAIN stdin_read :
        IsMalformed(stdin_read[i]) =>
            /\ ~RequestFailedAt(i)
            /\ wrote[i] => IsErrorReply(ReplyTo(i))

\* C3: every request line read produces exactly one reply line, or none when
\* its method is notifications/initialized, written before the next line is
\* read: the k-th reply answers the k-th reply-producing request. (A reply
\* whose write fails ends the run and is not held against the claim.)
C3_OneReplyPerRequestInOrder ==
    /\ Len(wrote) = Len(stdin_read)
    /\ Len(stdout) = ReplyIndex(Len(stdin_read))
    /\ \A i \in DOMAIN stdin_read :
          (IsRequest(stdin_read[i]) /\ ~WriteFailedAt(i)) =>
             /\ wrote[i] <=> MethodOf(stdin_read[i]) # Some("notifications/initialized")
             /\ wrote[i] => ReplyTo(i).id = IdOf(get(stdin_read[i].json, "id"))

\* A JSON object whose id is omitted or null.
IsNotification(line) ==
    /\ IsRequest(line)
    /\ line.json.t = "obj"
    /\ IdOf(get(line.json, "id")) = JNull

\* C4: a request whose id is omitted or null is a notification: whatever its
\* method, no reply line is written for it.
C4_NoReplyWithoutId ==
    \A i \in DOMAIN stdin_read : IsNotification(stdin_read[i]) => ~wrote[i]

\* C5: a blank line, and a line that does not parse as a JSON object (no
\* JSON at all, or a JSON value that is no object), is ignored: no reply is
\* written for it and the dispatcher goes on reading.
C5_NonObjectLinesAreIgnored ==
    \A i \in DOMAIN stdin_read :
        (~IsRequest(stdin_read[i]) \/ stdin_read[i].json.t # "obj") =>
            ~wrote[i] /\ ~RequestFailedAt(i)

\* A request (with an id) whose method is none of the four known ones.
IsUnknownMethod(line) ==
    /\ IsRequest(line)
    /\ ~IsNotification(line)
    /\ MethodOf(line) # None
    /\ MethodOf(line).v \notin KnownMethods

\* A prompts/get (with an id) on a prompt of the catalog whose render fails.
IsGetThatFailsToRender(line) ==
    /\ IsGet(line)
    /\ ~IsNotification(line)
    /\ NameAskedBy(line) # None
    /\ find(markdown_prompts, NameAskedBy(line).v) # None
    /\ \E rendered \in render(find(markdown_prompts, NameAskedBy(line).v).v,
                              ArgumentsGivenBy(line), formatter) : ~rendered.ok

\* C6: request-level errors are replies, not failures of the connection: an
\* unknown method is answered with code -32601, a failed render with code
\* -32602, and after either reply every later request line is still read and
\* answered (unless a write fails).
C6_ErrorRepliesKeepTheConnection ==
    \A i \in DOMAIN stdin_read :
        (/\ IsUnknownMethod(stdin_read[i]) \/ IsGetThatFailsToRender(stdin_read[i])
         /\ ~WriteFailedAt(i)) =>
            /\ wrote[i]
            /\ IsErrorReply(ReplyTo(i))
            /\ ReplyTo(i).error.code =
                  (IF IsUnknownMethod(stdin_read[i]) THEN -32601 ELSE -32602)
            /\ \A j \in (i + 1)..Len(stdin_read) :
                  (IsRequest(stdin_read[j]) /\ ~WriteFailedAt(j)) =>
                     /\ ~RequestFailedAt(j)
                     /\ wrote[j] \/ MethodOf(stdin_read[j])
                                       = Some("notifications/initialized")

\* C7: every prompt of the catalog has the set of its argument names equal to
\* the set of variable names the active formatter extracts from its content,
\* for either formatter and either value of the auto-discovery flag, in
\* every state of the loading and of the serving loop.
C7_CatalogInvariant ==
    \A k \in DOMAIN markdown_prompts :
        {markdown_prompts[k].arguments[j].name :
            j \in DOMAIN markdown_prompts[k].arguments}
          = ExtractedNames(markdown_prompts[k].content)

\* C7's case: the serving loop has answered a line over a catalog that holds
\* a prompt with arguments, a raw record having been dropped.
C7_Witness ==
    /\ pc = "serving"
    /\ stdout # <<>>
    /\ Len(markdown_prompts) < Len(prompts)
    /\ \E k \in DOMAIN markdown_prompts : Len(markdown_prompts[k].arguments) = 2

----------------------------------------------------------------------------
(* mcp.rs: MarkdownPrompt::render on its own, on every prompt that          *)
(* MarkdownPrompt::new builds within the bounds.                            *)

\* render is called at most this many times on one prompt.
MaxCalls == 2
\* A prompt that is rendered declares at most this many arguments.
MaxRenderArgs == 2

\* The declared arguments of the prompts that are rendered: a required and
\* an optional declaration of one name, two defaults for one name.
RenderArgPool == { Argument(<<"a">>, "first", None),
                   Argument(<<"b">>, "second", Some(<<"v">>)),
                   Argument(<<"b">>, "other", Some(<<"w">>)),
                   Argument(<<"b">>, "needed", None) }

RECURSIVE RenderArgLists(_)
RenderArgLists(n) ==
    IF n = 0 THEN {<<>>}
    ELSE LET L == RenderArgLists(n - 1)
         IN L \cup {Append(l, a) : l \in L, a \in RenderArgPool}

\* params.arguments after serde_json::from_value: nothing, or a map from
\* names (declared or not) to one value (plain text, or text that is a
\* reference).
SuppliedNames == { <<"a">>, <<"b">>, <<"c">> }
SuppliedValues == { <<"x">>, <<"{", "b", "}">> }

SuppliedArguments ==
    {None} \cup
    {Some([n \in keys |-> value]) :
        keys \in SUBSET SuppliedNames, value \in SuppliedValues}

\* prompt.render(arguments, formatter), the first call on the prompt.
Render ==
    /\ pc = "serving"
    /\ calls = <<>>
    /\ \E arguments \in SuppliedArguments :
          \E r \in render(markdown_prompts[1], arguments, formatter) :
             calls' = <<[arguments |-> arguments, result |-> r]>>
    /\ UNCHANGED <<formatter, auto_discover_args, prompts, pi, new_result,
                   markdown_prompts, pc, exit, stdin_read, wrote, stdout, prev>>

\* The same call once more: same prompt, same supplied bindings.
RenderAgain ==
    /\ pc = "serving"
    /\ calls # <<>>
    /\ Len(calls) < MaxCalls
    /\ \E r \in render(markdown_prompts[1], calls[1].arguments, formatter) :
          calls' = Append(calls, [arguments |-> calls[1].arguments, result |-> r])
    /\ UNCHANGED <<formatter, auto_discover_args, prompts, pi, new_result,
                   markdown_prompts, pc, exit, stdin_read, wrote, stdout, prev>>

\* The catalog holds one prompt, built by MarkdownPrompt::new from a raw record.
InitRender ==
    /\ formatter \in Formatters
    /\ auto_discover_args \in BOOLEAN
    /\ \E arguments \in RenderArgLists(MaxRenderArgs), content \in Contents(MaxParts) :
          /\ prompts = <<PromptData("p", "P", "about p", arguments, content)>>
          /\ new_result \in {r \in MarkdownPrompt_new(
                                      PromptData("p", "P", "about p", arguments, content),
                                      formatter, auto_discover_args) : r.ok}
    /\ markdown_prompts = <<new_result.v>>
    /\ pi = 1
    /\ pc = "serving"
    /\ exit = None
    /\ stdin_read = <<>>
    /\ wrote = <<>>
    /\ stdout = <<>>
    /\ prev = None
    /\ calls = <<>>

NextRender == Render \/ RenderAgain

SpecRender == InitRender /\ [][NextRender]_vars

----------------------------------------------------------------------------
(* Properties of render (SpecRender). *)

\* The names of the rendered prompt's arguments that have no default.
RequiredNames ==
    {markdown_prompts[1].arguments[k].name :
        k \in {j \in DOMAIN markdown_prompts[1].arguments :
                  markdown_prompts[1].arguments[j].default = None}}

\* The keys of the bindings a call supplied; none when it supplied nothing.
SuppliedKeys(call) ==
    IF call.arguments = None THEN {} ELSE DOMAIN call.arguments.v

\* C11: render fails if and only if an argument without a default is absent
\* from the keys of the supplied bindings (no bindings count as the empty
\* map), and the failure names, each once, exactly the required names that
\* were not supplied: every name in it is the name of an argument without a
\* default, is no supplied key and is a name of the prompt's arguments.
C11_RenderFailsOnMissingRequired ==
    \A c \in DOMAIN calls :
        /\ ~calls[c].result.ok <=>
              \E k \in DOMAIN markdown_prompts[1].arguments :
                 /\ markdown_prompts[1].arguments[k].default = None
                 /\ markdown_prompts[1].arguments[k].name \notin SuppliedKeys(calls[c])
        /\ ~calls[c].result.ok =>
              /\ calls[c].result.err.kind = "Missing required arguments"
              /\ Range(calls[c].result.err.missing)
                    = RequiredNames \ SuppliedKeys(calls[c])
              /\ Len(calls[c].result.err.missing)
                    = Cardinality(RequiredNames \ SuppliedKeys(calls[c]))
              /\ \A n \in Range(calls[c].result.err.missing) :
                    /\ n \notin SuppliedKeys(calls[c])
                    /\ \E k \in DOMAIN markdown_prompts[1].arguments :
                          /\ markdown_prompts[1].arguments[k].name = n
                          /\ markdown_prompts[1].arguments[k].default = None

\* C11's case: a render failed on a prompt that declares a required and an
\* optional name, given only a name the prompt does not declare: the failure
\* names the required name alone.
C11_Witness ==
    /\ calls # <<>>
    /\ ~calls[1].result.ok
    /\ Len(markdown_prompts[1].arguments) = 2
    /\ markdown_prompts[1].arguments[1].name = <<"a">>
    /\ markdown_prompts[1].arguments[1].default = None
    /\ markdown_prompts[1].arguments[2].name = <<"b">>
    /\ markdown_prompts[1].arguments[2].default # None
    /\ SuppliedKeys(calls[1]) = {<<"c">>}
    /\ calls[1].result.err.missing = <<(<<"a">>)>>

\* C12: when render fails for missing required arguments, two renders of the
\* same prompt with the same supplied bindings produce the same failure
\* message, the missing names being listed in one stable order.
C12_SameFailureForSameCall ==
    \A c, d \in DOMAIN calls :
        (~calls[c].result.ok /\ ~calls[d].result.ok
            /\ calls[c].arguments = calls[d].arguments)
          => calls[c].result.err.missing = calls[d].result.err.missing

\* The index of the last declaration of a name among the prompt's arguments.
LastDeclaration(n) ==
    CHOOSE k \in DOMAIN markdown_prompts[1].arguments :
        /\ markdown_prompts[1].arguments[k].name = n
        /\ \A j \in DOMAIN markdown_prompts[1].arguments :
              markdown_prompts[1].arguments[j].name = n => j <= k

\* The bindings of a call: for every supplied key the supplied value, for
\* every other declared name the default of the declaration `own` when the
\* name is that declaration's, and of the name's last declaration otherwise.
EffectiveBindings(call, own) ==
    [n \in {markdown_prompts[1].arguments[k].name :
               k \in DOMAIN markdown_prompts[1].arguments}
           \cup SuppliedKeys(call) |->
        IF n \in SuppliedKeys(call) THEN call.arguments.v[n]
        ELSE IF own \in DOMAIN markdown_prompts[1].arguments
                /\ markdown_prompts[1].arguments[own].name = n
             THEN markdown_prompts[1].arguments[own].default.v
             ELSE markdown_prompts[1].arguments[LastDeclaration(n)].default.v]

\* C13 as stated: on a successful render every argument is bound to the
\* supplied value when its name is a supplied key and to its own declared
\* default otherwise, and the result is the formatter's substitution of the
\* content under these bindings.
C13_EveryArgumentsOwnDefault ==
    \A c \in DOMAIN calls :
        calls[c].result.ok =>
            \A k \in DOMAIN markdown_prompts[1].arguments :
                calls[c].result.v =
                    format(formatter, markdown_prompts[1].content,
                           EffectiveBindings(calls[c], k))

\* C13, amended: on a successful render every argument is bound to the
\* supplied value when its name is a supplied key (also when it has a
\* default) and otherwise to the default of the last declaration of its
\* name, and the result is the formatter's substitution of the content under
\* exactly these bindings.
C13_SuppliedThenLastDefault ==
    \A c \in DOMAIN calls :
        calls[c].result.ok =>
            calls[c].result.v =
                format(formatter, markdown_prompts[1].content,
                       EffectiveBindings(calls[c], 0))

\* C13's case: a render succeeded on a prompt that declares a required a and
\* an optional b, with a supplied and b left to its default, and another one
\* with b supplied too.
C13_Witness ==
    /\ calls # <<>>
    /\ calls[1].result.ok
    /\ Len(markdown_prompts[1].arguments) = 2
    /\ markdown_prompts[1].arguments[1] = Argument(<<"a">>, "first", None)
    /\ markdown_prompts[1].arguments[2] = Argument(<<"b">>, "second", Some(<<"v">>))
    /\ markdown_prompts[1].content = <<"{", "a", "}", "{", "b", "}">>
    /\ formatter = "brace"
    /\ SuppliedKeys(calls[1]) = {<<"a">>}
    /\ calls[1].result.v = <<"x", "v">>

----------------------------------------------------------------------------
(* formatters.rs: Formatter::format and Formatter::extract_arguments on     *)
(* their own, on every content and every map of variables within bounds.    *)

\* A content that is formatted is at most this many fragments long.
MaxFormatParts == 3

\* The pieces of such a content: references of both syntaxes, and the
\* characters that stand next to them ("{{a}}", "$$a", "{a{b}}", "$a1").
FormatFragments == { <<"{", "a", "}">>, <<"{", "b", "}">>, <<"$", "a">>, <<"$", "b">>,
                     <<"{">>, <<"}">>, <<"$">>, <<"a">>, <<"1">> }

RECURSIVE FormatContents(_)
FormatContents(n) ==
    IF n = 0 THEN {<<>>}
    ELSE LET C == FormatContents(n - 1)
         IN C \cup {c \o f : c \in C, f \in FormatFragments}

\* The values of the variables: empty, a name, text that is no part of any
\* reference, and a reference of either syntax.
FormatValues == { <<>>, <<"b">>, <<"-">>, <<"{", "b", "}">>, <<"$", "b">> }

\* variables: &HashMap<String, String>
FormatVariables ==
    UNION {[keys -> FormatValues] : keys \in SUBSET {<<"a">>, <<"b">>}}

\* formatter.format(content, variables)
Format ==
    /\ pc = "loading"
    /\ calls = <<>>
    /\ \E variables \in FormatVariables :
          calls' = <<[variables |-> variables,
                      text |-> format(formatter, prompts[1].content, variables)]>>
    /\ UNCHANGED <<formatter, auto_discover_args, prompts, pi, new_result,
                   markdown_prompts, pc, exit, stdin_read, wrote, stdout, prev>>

\* A formatter and a content; nothing has been constructed.
InitFormat ==
    /\ formatter \in Formatters
    /\ auto_discover_args = FALSE
    /\ \E content \in FormatContents(MaxFormatParts) :
          prompts = <<PromptData("p", "P", "about p", <<>>, content)>>
    /\ pi = 0
    /\ new_result = None
    /\ markdown_prompts = <<>>
    /\ pc = "loading"
    /\ exit = None
    /\ stdin_read = <<>>
    /\ wrote = <<>>
    /\ stdout = <<>>
    /\ prev = None
    /\ calls = <<>>

NextFormat == Format

SpecFormat == InitFormat /\ [][NextFormat]_vars

----------------------------------------------------------------------------
(* Properties of the formatters (SpecFormat). *)

\* The text from position i to position j is a reference: {identifier} for
\* brace, $identifier with the identifier as long as the text allows for
\* dollar.
IsReference(fmt, s, i, j) ==
    IF fmt = "brace"
    THEN /\ s[i] = "{"
         /\ s[j] = "}"
         /\ validate_variable_name(SubSeq(s, i + 1, j - 1))
    ELSE /\ s[i] = "$"
         /\ validate_variable_name(SubSeq(s, i + 1, j))
         /\ (j < Len(s) => ~IsIdentChar(s[j + 1]))

NameOfReference(fmt, s, i, j) ==
    IF fmt = "brace" THEN SubSeq(s, i + 1, j - 1) ELSE SubSeq(s, i + 1, j)

\* One scan from position i, left to right: a reference that starts at i is
\* replaced by the value bound to its name, or copied when its name is not
\* bound, and the scan goes on after it; any other character is copied. The
\* values are put into the result, not into the text that is scanned.
RECURSIVE Substituted(_, _, _, _)
Substituted(fmt, s, variables, i) ==
    IF i > Len(s) THEN <<>>
    ELSE IF \E j \in (i + 1)..Len(s) : IsReference(fmt, s, i, j)
    THEN LET j == CHOOSE j \in (i + 1)..Len(s) : IsReference(fmt, s, i, j)
         IN (IF NameOfReference(fmt, s, i, j) \in DOMAIN variables
             THEN variables[NameOfReference(fmt, s, i, j)]
             ELSE SubSeq(s, i, j))
            \o Substituted(fmt, s, variables, j + 1)
    ELSE <<s[i]>> \o Substituted(fmt, s, variables, i + 1)

\* C15: for both formatters, format scans the content once, left to right,
\* over non-overlapping references: a reference whose name is bound is
\* replaced by the value, a reference whose name is not bound is left as it
\* is, the text outside references is unchanged, and the values put in are
\* not scanned again.
C15_OneScanLeftToRight ==
    \A c \in DOMAIN calls :
        calls[c].text =
            Substituted(formatter, prompts[1].content, calls[c].variables, 1)

\* C15's case: a content with two bound references and text after them was
\* formatted, the first value being itself a reference to the second name:
\* the value stands in the result as it is, the text after it is unchanged.
C15_Witness ==
    /\ calls # <<>>
    /\ formatter = "brace"
    /\ prompts[1].content = <<"{", "a", "}", "{", "b", "}", "1">>
    /\ calls[1].variables =
          (<<"a">> :> <<"{", "b", "}">>) @@ (<<"b">> :> <<"-">>)
    /\ calls[1].text = <<"{", "b", "}", "-", "1">>

\* The variables of a call bind every name extract_arguments finds in the
\* content.
BindsEveryName(call) ==
    /\ extract_arguments(formatter, prompts[1].content).ok
    /\ extract_arguments(formatter, prompts[1].content).v \subseteq DOMAIN call.variables

\* A value that is not empty and holds no character of either reference
\* syntax: no brace, no dollar sign, no character of an identifier.
IsPlainValue(value) ==
    /\ value # <<>>
    /\ \A i \in DOMAIN value :
          /\ value[i] \notin {"{", "}", "$"}
          /\ ~IsIdentChar(value[i])

\* C14 as stated: for every content, both formatters and every map that
\* binds every name extracted from the content, to any values, extracting
\* the names from the formatted text yields the empty set.
C14_RoundTripClosure ==
    \A c \in DOMAIN calls :
        BindsEveryName(calls[c])
          => extract_arguments(formatter, calls[c].text) = Ok({})

\* C14, amended: for every content, both formatters and every map that binds
\* every name extracted from the content to a value that is not empty and
\* holds no brace, no dollar sign and no identifier character, extracting the
\* names from the formatted text yields the empty set.
C14_RoundTripClosureOfPlainValues ==
    \A c \in DOMAIN calls :
        (/\ BindsEveryName(calls[c])
         /\ \A n \in DOMAIN calls[c].variables :
               IsPlainValue(calls[c].variables[n]))
          => extract_arguments(formatter, calls[c].text) = Ok({})

\* C14's case: a content with two references, one of them inside a pair of
\* braces, was formatted with both names bound to plain values.
C14_Witness ==
    /\ calls # <<>>
    /\ formatter = "brace"
    /\ prompts[1].content = <<"{", "{", "a", "}", "{", "b", "}">>
    /\ DOMAIN calls[1].variables = {<<"a">>, <<"b">>}
    /\ \A n \in DOMAIN calls[1].variables : IsPlainValue(calls[1].variables[n])
    /\ calls[1].text = <<"{", "-", "-">>

----------------------------------------------------------------------------
(* mcp.rs: run_server serving a client that sends prompts/list and          *)
(* prompts/get only.                                                        *)

\* The raw records: those of RawPool, and one whose only argument is optional.
CatalogRawPool ==
    RawPool \cup
    { PromptData("r", "R", "about r",
          <<Argument(<<"b">>, "second", Some(<<"v">>))>>,
          <<"{", "b", "}", "$", "b">>) }

RECURSIVE CatalogRawLists(_)
CatalogRawLists(n) ==
    IF n = 0 THEN {<<>>}
    ELSE LET L == CatalogRawLists(n - 1)
         IN L \cup {Append(l, r) : l \in L, r \in CatalogRawPool}

\* The lines of the client: prompts/list with and without id; prompts/get
\* with a map of strings, without arguments, for a name that is not there,
\* with a map that has a number for one value, with an array.
CatalogLines ==
    { JsonLine(JObj(("method" :> JStr("prompts/list")) @@ ("id" :> JNum(2)))),
      JsonLine(JObj("method" :> JStr("prompts/list"))),
      Get(4, ("name" :> JStr("p"))
               @@ ("arguments" :> JObj(<<"a">> :> JStr(<<"x">>)))),
      Get(5, ("name" :> JStr("p"))),
      Get(6, ("name" :> JStr("missing"))),
      Get(9, ("name" :> JStr("p"))
               @@ ("arguments" :> JObj((<<"a">> :> JStr(<<"x">>))
                                        @@ (<<"b">> :> JNum(1))))),
      Get(10, ("name" :> JStr("q"))
               @@ ("arguments" :> JObj((<<"a">> :> JStr(<<"x">>))
                                        @@ (<<"b">> :> JStr(<<"{", "a", "}">>))))),
      Get(11, ("name" :> JStr("r"))
               @@ ("arguments" :> JArr(<<JStr(<<"x">>)>>))),
      Get(12, ("name" :> JStr("r"))
               @@ ("arguments" :> JObj((<<"b">> :> JStr(<<"x">>))
                                        @@ (<<"c">> :> JNum(1))))) }

\* handle_request returns Ok(Some(response)) for a line of the client: the
\* response is written as one line and flushed.
ListOrGet ==
    /\ CanRead
    /\ \E line \in CatalogLines :
          /\ \E response \in handle_request(line.json, markdown_prompts, formatter) :
                /\ response.ok /\ response.v # None
                /\ stdout' = Append(stdout, response.v.v)
          /\ stdin_read' = Append(stdin_read, line)
    /\ wrote' = Append(wrote, TRUE)
    /\ UNCHANGED <<formatter, auto_discover_args, prompts, pi, new_result,
                   markdown_prompts, pc, exit, prev, calls>>

\* handle_request returns Err for a line of the client: run_server returns it.
ListOrGetFails ==
    /\ CanRead
    /\ \E line \in CatalogLines :
          /\ \E response \in handle_request(line.json, markdown_prompts, formatter) :
                /\ ~response.ok
                /\ exit' = Err([kind |-> "request", cause |-> response.err])
          /\ stdin_read' = Append(stdin_read, line)
    /\ wrote' = Append(wrote, FALSE)
    /\ pc' = "done"
    /\ UNCHANGED <<formatter, auto_discover_args, prompts, pi, new_result,
                   markdown_prompts, stdout, prev, calls>>

InitCatalog ==
    /\ formatter \in Formatters
    /\ auto_discover_args \in BOOLEAN
    /\ prompts \in CatalogRawLists(MaxPrompts)
    /\ pi = 0
    /\ new_result = None
    /\ markdown_prompts = <<>>
    /\ pc = "loading"
    /\ exit = None
    /\ stdin_read = <<>>
    /\ wrote = <<>>
    /\ stdout = <<>>
    /\ prev = None
    /\ calls = <<>>

NextCatalog ==
    \/ NewPrompt
    \/ LockStdin
    \/ ListOrGet
    \/ ListOrGetFails
    \/ EndOfInput

SpecCatalog == InitCatalog /\ [][NextCatalog]_vars

----------------------------------------------------------------------------
(* Properties of prompts/list and prompts/get (SpecCatalog). *)

\* The construction of a raw record succeeds: with auto-discovery the record
\* declares no argument; without, the declared names are identifiers and are
\* the names of the content.
ConstructionSucceeds(prompt_data) ==
    IF auto_discover_args THEN prompt_data.arguments = <<>>
    ELSE IdentifiersThatMatch(prompt_data)

\* The names of a set in ascending order.
Ascending(names) ==
    CHOOSE s \in Perms(names) :
        \A i, j \in DOMAIN s : i < j => StrLess(s[i], s[j])

\* The arguments of the prompt built from a raw record that is accepted: the
\* declared ones, or with auto-discovery one for each name of the content.
ArgumentsOfRecord(prompt_data) ==
    IF auto_discover_args
    THEN LET names == Ascending(ExtractedNames(prompt_data.content))
         IN [k \in DOMAIN names |-> Argument(names[k], "", None)]
    ELSE prompt_data.arguments

\* The entry of prompts/list for a raw record: the arguments member is left
\* out (None) when there is no argument.
EntryOfRecord(prompt_data) ==
    LET arguments == ArgumentsOfRecord(prompt_data)
    IN IF arguments = <<>>
       THEN [name |-> prompt_data.name, description |-> prompt_data.description,
             arguments |-> None]
       ELSE [name |-> prompt_data.name, description |-> prompt_data.description,
             arguments |-> Some([k \in DOMAIN arguments |->
                                   [name |-> arguments[k].name,
                                    description |-> arguments[k].description,
                                    required |-> arguments[k].default = None]])]

\* One entry for each of the first n raw records whose construction succeeds,
\* in the order of the records.
RECURSIVE EntriesOfRecords(_)
EntriesOfRecords(n) ==
    IF n = 0 THEN <<>>
    ELSE IF ConstructionSucceeds(prompts[n])
    THEN Append(EntriesOfRecords(n - 1), EntryOfRecord(prompts[n]))
    ELSE EntriesOfRecords(n - 1)

IsList(line) == IsRequest(line) /\ MethodOf(line) = Some("prompts/list")

\* C16: the result of every prompts/list, whatever lines came before it, has
\* exactly one entry for each raw record whose construction succeeds, in the
\* order of the raw records (a record whose construction fails is left out
\* and nothing else is); an entry has the name, the description and, if and
\* only if the prompt has an argument, the list of its arguments, each with
\* required = its default is absent.
C16_ListShowsTheConstructedPrompts ==
    \A i \in DOMAIN stdin_read :
        (IsList(stdin_read[i]) /\ wrote[i]) =>
            /\ ~IsErrorReply(ReplyTo(i))
            /\ ReplyTo(i).result.prompts = EntriesOfRecords(Len(prompts))

\* C16's case: of two raw records the first was dropped, and a prompts/list
\* that came after another request was answered with the one entry of the
\* second, which has a required and an optional argument.
C16_Witness ==
    /\ Len(prompts) = 2
    /\ ~ConstructionSucceeds(prompts[1])
    /\ Len(stdin_read) = 2
    /\ IsGet(stdin_read[1]) /\ wrote[1]
    /\ IsList(stdin_read[2]) /\ wrote[2]
    /\ Len(ReplyTo(2).result.prompts) = 1
    /\ ReplyTo(2).result.prompts[1].arguments # None
    /\ ReplyTo(2).result.prompts[1].arguments.v[1].required
    /\ ~ReplyTo(2).result.prompts[1].arguments.v[2].required

\* The place in the catalog of the first prompt with a name.
FirstNamed(name) ==
    CHOOSE k \in DOMAIN markdown_prompts :
        /\ markdown_prompts[k].name = name
        /\ \A j \in DOMAIN markdown_prompts :
              markdown_prompts[j].name = name => k <= j

IsGetOfKnownName(line) ==
    /\ IsGet(line)
    /\ NameAskedBy(line) # None
    /\ \E k \in DOMAIN markdown_prompts :
          markdown_prompts[k].name = NameAskedBy(line).v

GivesNoStringMap(line) ==
    LET a == and_then_get(get(line.json, "params"), "arguments")
    IN /\ a # None
       /\ \/ a.v.t # "obj"
          \/ \E k \in DOMAIN a.v.m : a.v.m[k].t # "str"

\* The names of a prompt's arguments without a default, and the bindings its
\* defaults alone make.
RequiredNamesOf(prompt) ==
    {prompt.arguments[k].name :
        k \in {j \in DOMAIN prompt.arguments : prompt.arguments[j].default = None}}

DefaultsOf(prompt) ==
    [n \in {prompt.arguments[k].name :
               k \in {j \in DOMAIN prompt.arguments :
                         prompt.arguments[j].default # None}} |->
        prompt.arguments[CHOOSE k \in DOMAIN prompt.arguments :
                            /\ prompt.arguments[k].name = n
                            /\ prompt.arguments[k].default # None
                            /\ \A j \in DOMAIN prompt.arguments :
                                  (prompt.arguments[j].name = n
                                     /\ prompt.arguments[j].default # None)
                                   => j <= k].default.v]

\* C18: a prompts/get whose params.arguments is no map from strings to
\* strings is answered as if it had no arguments: with the error that names
\* every required argument of the prompt as missing when it has one, and
\* otherwise with the content rendered under the defaults alone; no supplied
\* value is used.
C18_ArgumentsDiscardedAsAWhole ==
    \A i \in DOMAIN stdin_read :
        (/\ IsGetOfKnownName(stdin_read[i])
         /\ GivesNoStringMap(stdin_read[i])
         /\ wrote[i]) =>
            LET first == markdown_prompts[FirstNamed(NameAskedBy(stdin_read[i]).v)]
            IN IF RequiredNamesOf(first) # {}
               THEN /\ IsErrorReply(ReplyTo(i))
                    /\ ReplyTo(i).error.code = -32602
                    /\ ReplyTo(i).error.message.cause.kind
                          = "Missing required arguments"
                    /\ Range(ReplyTo(i).error.message.cause.missing)
                          = RequiredNamesOf(first)
               ELSE /\ ~IsErrorReply(ReplyTo(i))
                    /\ ReplyTo(i).result.messages[1].content.text
                          = format(formatter, first.content, DefaultsOf(first))

\* C18's case: a prompts/get gave a map with a string for the required a and
\* a number for the optional b, and was answered with the error that a is
\* missing; another gave an array for a prompt whose only argument is
\* optional, and was answered with the content under the default.
C18_Witness ==
    /\ Len(stdin_read) = 2
    /\ IsGetOfKnownName(stdin_read[1])
    /\ GivesNoStringMap(stdin_read[1])
    /\ get(get(stdin_read[1].json, "params").v, "arguments").v
          = JObj((<<"a">> :> JStr(<<"x">>)) @@ (<<"b">> :> JNum(1)))
    /\ wrote[1]
    /\ IsErrorReply(ReplyTo(1))
    /\ ReplyTo(1).error.message.cause.missing = <<(<<"a">>)>>
    /\ IsGetOfKnownName(stdin_read[2])
    /\ GivesNoStringMap(stdin_read[2])
    /\ get(get(stdin_read[2].json, "params").v, "arguments").v.t = "arr"
    /\ wrote[2]
    /\ formatter = "dollar"
    /\ ReplyTo(2) = ResultReply(Some(JNum(11)),
                        [description |-> "about r",
                         messages |-> <<[role |-> "user",
                                         content |-> [type |-> "text",
                                                      text |-> <<"{", "b", "}", "v">>]]>>])

====
